---------------------------- MODULE Spec2Model ----------------------------
(***************************************************************************)
(* Verification model of the one-time-code service of                      *)
(* API_Red_Inteligente_Auth: CodeService (generate_code, validate_code,    *)
(* resend_code, cleanup_expired_codes) over the table dbo.user_pswr        *)
(* (CodeVerification) and the lookup table dbo.stg_personal.               *)
(*                                                                         *)
(* Time is counted in whole minutes.  A timestamp is a natural number, a   *)
(* date is a day number, NULL is the SQL null / Python None.               *)
(***************************************************************************)
EXTENDS Integers, Sequences, FiniteSets, TLC

\* ------------------------------------------------------------ settings
\* Settings.CODE_EXPIRATION_MINUTES
CODE_EXPIRATION_MINUTES == 30
\* Settings.CODE_RESEND_DELAY_MINUTES
CODE_RESEND_DELAY_MINUTES == 2
\* Settings.CODE_MAX_RESEND_PER_HOUR
CODE_MAX_RESEND_PER_HOUR == 5
\* can_resend divides the elapsed seconds by 3600: one hour, in minutes
MINUTES_PER_HOUR == 60
\* datetime.utcnow().date(): minutes in one day
MINUTES_PER_DAY == 1440
\* None / SQL NULL of a nullable timestamp or date column
NULL == -1

\* ------------------------------------------------------------ bounds
\* The clock of the sequential specification stops here (past one TTL).
MaxTime == 32
\* The clock of the resend-window specification stops here (past one hour
\* after a full quota of resends).
MaxTimeHour == 70
\* The clock of the concurrent specification stops here.
MaxTimeConc == 1
\* The clock of the sweep specification stops here (past one TTL).
MaxTimeSweep == 31
\* The clock of the environment specification stops here (one resend delay).
MaxTimeEnv == 2
\* The clock of the clock-reads specification stops here.
MaxTimeClock == 4
\* Minutes the clock runs in the identities specification
MaxTimeIds == 1
\* The clock of the row-life specification stops here (one hour past a full
\* quota of resends).
MaxTimeLife == 70
\* Concurrent requests (worker processes) of the concurrent specification.
NumProcs == 2
\* Requests the concurrent specification takes in one behaviour.
MaxCalls == 4

\* ------------------------------------------------------------ inputs
\* Document numbers as the API layer hands them over: digits only, at least
\* three of them (RequestCodeRequest.validate_document_number).
Docs == { <<1, 2, 3>> }
\* Six-digit codes secrets.choice can draw (digit strings); two of them
\* differ in the last digit only.
Codes == { <<0, 0, 0, 1, 2, 3>>, <<0, 0, 0, 1, 2, 4>>, <<9, 9, 9, 9, 9, 9>> }
\* The code the resend-window specification draws.
FewCodes == { <<0, 0, 0, 1, 2, 3>> }
\* The codes the environment specification draws and submits.
EnvCodes == { <<0, 0, 0, 1, 2, 3>>, <<9, 9, 9, 9, 9, 9>> }
\* The codes the concurrent specification draws and submits.
ConcCodes == { <<0, 0, 0, 1, 2, 3>>, <<9, 9, 9, 9, 9, 9>> }

\* HTTP status / detail of a response
OK == "200"
HTTP_401_UNAUTHORIZED == "401"
HTTP_404_NOT_FOUND == "404"
HTTP_403_FORBIDDEN == "403"
HTTP_429_TOO_MANY_REQUESTS == "429"
HTTP_422_UNPROCESSABLE_ENTITY == "422"
HTTP_500_INTERNAL_SERVER_ERROR == "500"
\* validate_code's messages
MsgNoCode == "No se encontro un codigo de verificacion para este usuario."
MsgUsed == "El codigo ya fue utilizado. Solicite uno nuevo."
MsgExpired == "El codigo ha expirado. Solicite uno nuevo."
MsgIncorrect == "El codigo ingresado es incorrecto."
MsgVerified == "Codigo verificado correctamente."
\* can_resend's messages
MsgWait == "Debe esperar {wait_time} minuto(s) antes de solicitar un nuevo codigo."
MsgHourLimit == "Ha excedido el limite de reenvios por hora. Intente mas tarde."

VARIABLES
    now,          \* datetime.utcnow(), in minutes
    personal,     \* dbo.stg_personal: document number -> row (partial)
    store,        \* dbo.user_pswr: id -> CodeVerification row (partial)
    resp,         \* what the most recent completed call returned
    pc,           \* concurrent specification: each request's position
    req,          \* concurrent specification: each request's arguments
    obj,          \* concurrent specification: each session's loaded objects
    mailbox,      \* history: the code last returned for a document number
    presented,    \* history: the returned code has been given to validate
    streak,       \* history: resend calls in a row, each spaced by the delay
    window_start, \* history: issuance of the first code of the resend window
    ok_validates, \* history: successful validations of the current code
    ok_resends,   \* history: successful resends since the counter was reset
    calls,        \* history: requests the concurrent specification has taken
    email_sent,   \* what the last send_verification_code returned
    before        \* history: dbo.user_pswr before the latest endpoint call (in the
                  \* row-life specification: before the latest generate or resend)

progvars == <<now, personal, store, resp>>
procvars == <<pc, req, obj>>
histvars == <<mailbox, presented, streak, window_start, ok_validates, ok_resends, calls,
              email_sent, before>>
vars == <<now, personal, store, resp, pc, req, obj,
          mailbox, presented, streak, window_start, ok_validates, ok_resends, calls,
          email_sent, before>>

\* ------------------------------------------------------------ helpers
\* int(s): the decimal value of a digit string
RECURSIVE ToInt(_)
ToInt(s) == IF s = << >> THEN 0 ELSE 10 * ToInt(SubSeq(s, 1, Len(s) - 1)) + s[Len(s)]

\* int(document_number): the primary key of the document's row
DocId(document_number) == ToInt(document_number)

Ids == { DocId(d) : d \in Docs }

\* A table without row k
Without(tbl, K) == [ i \in (DOMAIN tbl) \ K |-> tbl[i] ]
\* A table with row k set to r
With(tbl, k, r) == [ i \in (DOMAIN tbl) \cup {k} |-> IF i = k THEN r ELSE tbl[i] ]
EmptyTable == [ i \in {} |-> 0 ]

\* datetime.utcnow().date()
Today(t) == t \div MINUTES_PER_DAY

\* ------------------------------------------------------------ hasher
\* argon2.hash: a self-describing digest no other plaintext verifies against
hash_code(code) == << "$argon2id$", code >>

\* (mutant) a verification that compares the first five digits only
verify_code_hash_prefix(code, hashed_code) ==
    IF Len(hashed_code) = 2 /\ hashed_code[1] = "$argon2id$"
    THEN SubSeq(hashed_code[2], 1, 5) = SubSeq(code, 1, 5)
    ELSE FALSE

\* argon2.verify; a malformed digest raises inside and yields False
verify_code_hash(code, hashed_code) ==
    IF Len(hashed_code) = 2 /\ hashed_code[1] = "$argon2id$"
    THEN hashed_code[2] = code
    ELSE FALSE


\* ------------------------------------------------------------ the ORM session
\* The columns of dbo.user_pswr
RowFields == { "id", "correo", "movil", "pswr", "time_stamp_generacion",
               "time_stamp_vencimiento", "revoked", "resend_count", "last_resend_at" }

\* db.query(CodeVerification).filter(CodeVerification.id == id).first():
\* the loaded object, or nothing (None)
Query(tbl, id) == IF id \in DOMAIN tbl THEN << tbl[id] >> ELSE << >>

\* db.commit() of a loaded object that was modified: one
\* UPDATE ... SET <the attributes whose value differs from the loaded one>
\* WHERE id = <pk>.  always names the attributes whose new value can never
\* equal the loaded one (a freshly salted digest).  No matching row: the flush
\* raises (StaleDataError) and nothing is written.
FlushUpdate(tbl, loaded, changed, always) ==
    LET dirty == { f \in RowFields : changed[f] # loaded[f] } \cup always
    IN  IF dirty = {} THEN [ok |-> TRUE, tbl |-> tbl]
        ELSE IF loaded.id \notin DOMAIN tbl THEN [ok |-> FALSE, tbl |-> tbl]
        ELSE [ok |-> TRUE,
              tbl |-> With(tbl, loaded.id,
                           [ f \in RowFields |->
                               IF f \in dirty THEN changed[f] ELSE tbl[loaded.id][f] ])]

\* (mutant) an INSERT into a table without a primary key constraint
FlushInsert_no_key(tbl, row) == [ok |-> TRUE, tbl |-> With(tbl, row.id, row)]

\* db.add(code_instance); db.commit(): one INSERT.  The primary key exists
\* already: the flush raises (IntegrityError) and nothing is written.
FlushInsert(tbl, row) ==
    IF row.id \in DOMAIN tbl THEN [ok |-> FALSE, tbl |-> tbl]
    ELSE [ok |-> TRUE, tbl |-> With(tbl, row.id, row)]

\* ------------------------------------------------------------ CodeVerification
\* (mutant) a mark_as_revoked that leaves the flag as it is
mark_as_revoked_skip(self) == self

mark_as_revoked(self) == [self EXCEPT !.revoked = 1]

reset_resend_count(self) == [self EXCEPT !.resend_count = 0, !.last_resend_at = NULL]

\* CodeVerification.create_code; t_exp and t_gen are its two clock reads
create_code(document_number, correo, movil, pswr, t_exp, t_gen) ==
    [ id |-> document_number,
      correo |-> correo,
      movil |-> movil,
      pswr |-> pswr,
      time_stamp_generacion |-> t_gen,
      time_stamp_vencimiento |-> t_exp + CODE_EXPIRATION_MINUTES,
      revoked |-> 0,
      resend_count |-> 0,
      last_resend_at |-> NULL ]

\* CodeVerification.can_resend at clock t: (puede_reenviar, mensaje_error), the
\* wait it reports, and the object as the call leaves it in memory
can_resend(self, t) ==
    IF /\ self.last_resend_at # NULL
       /\ t - self.last_resend_at < CODE_RESEND_DELAY_MINUTES
    THEN [ok |-> FALSE, msg |-> MsgWait,
          wait |-> (CODE_RESEND_DELAY_MINUTES - (t - self.last_resend_at)) + 1,
          self |-> self]
    ELSE IF self.resend_count >= CODE_MAX_RESEND_PER_HOUR
    THEN IF t - self.time_stamp_generacion < MINUTES_PER_HOUR
         THEN [ok |-> FALSE, msg |-> MsgHourLimit, wait |-> 0, self |-> self]
         ELSE [ok |-> TRUE, msg |-> "", wait |-> 0, self |-> reset_resend_count(self)]
    ELSE [ok |-> TRUE, msg |-> "", wait |-> 0, self |-> self]

\* ------------------------------------------------------------ CodeService
\* A response: the call and its arguments (for generate and resend, code is
\* the code returned), the HTTP status the API layer answers with, the
\* message, the correo returned, and a number (the wait of a 429, the rows a
\* cleanup deleted).
Response(op, d, code, status, detail, correo, n) ==
    [op |-> op, doc |-> d, code |-> code, status |-> status, detail |-> detail,
     correo |-> correo, n |-> n]

NoResponse == Response("none", << >>, << >>, "", "", "", 0)

\* (mutant) a lookup that takes a contract ending today as ended
GenLookup_today_ended(tblP, document_number, t) ==
    IF document_number \notin DOMAIN tblP THEN HTTP_404_NOT_FOUND
    ELSE IF /\ tblP[document_number].dt_fin_contrato # NULL
            /\ tblP[document_number].dt_fin_contrato <= Today(t)
    THEN HTTP_403_FORBIDDEN
    ELSE OK

\* generate_code, lines 37-61: the lookup in dbo.stg_personal and its checks
GenLookup(tblP, document_number, t) ==
    IF document_number \notin DOMAIN tblP THEN HTTP_404_NOT_FOUND
    ELSE IF /\ tblP[document_number].dt_fin_contrato # NULL
            /\ tblP[document_number].dt_fin_contrato < Today(t)
    THEN HTTP_403_FORBIDDEN
    ELSE OK

\* int(user.movil) if user.movil else 0 (movil is a digit string, or empty)
movil_int(user) == IF user.movil = << >> THEN 0 ELSE ToInt(user.movil)

\* generate_code, lines 77-101: the object the session holds before commit.
\* t1, t2, t3 are the values of datetime.utcnow() at its successive reads:
\* lines 82, 83 and 88 when the row is updated, lines 77 and 83 of
\* create_code when it is created.
GenApplyAt(existing, user, document_number, code, is_resend, t1, t2, t3) ==
    IF existing # << >>
    THEN [ existing[1] EXCEPT
             !.correo = user.correo,
             !.movil = movil_int(user),
             !.pswr = hash_code(code),
             !.time_stamp_generacion = t1,
             !.time_stamp_vencimiento = t2 + CODE_EXPIRATION_MINUTES,
             !.revoked = 0,
             !.resend_count = IF is_resend THEN existing[1].resend_count + 1 ELSE 0,
             !.last_resend_at = IF is_resend THEN t3 ELSE NULL ]
    ELSE create_code(DocId(document_number), user.correo, movil_int(user),
                     hash_code(code), t1, t2)

\* (mutant) a fresh generate that leaves the resend counters as they are
GenApply_keep_counters(existing, user, document_number, code, is_resend, t) ==
    IF existing # << >> /\ ~ is_resend
    THEN [ GenApplyAt(existing, user, document_number, code, is_resend, t, t, t)
             EXCEPT !.resend_count = existing[1].resend_count,
                    !.last_resend_at = existing[1].last_resend_at ]
    ELSE GenApplyAt(existing, user, document_number, code, is_resend, t, t, t)

\* (mutant) a first resend that is counted when it creates the row
GenApply_count_first(existing, user, document_number, code, is_resend, t) ==
    IF existing = << >> /\ is_resend
    THEN [ GenApplyAt(existing, user, document_number, code, is_resend, t, t, t)
             EXCEPT !.resend_count = 1, !.last_resend_at = t ]
    ELSE GenApplyAt(existing, user, document_number, code, is_resend, t, t, t)

\* (mutant) a resend that restarts the counter at 1
GenApply_resend_restarts(existing, user, document_number, code, is_resend, t) ==
    IF existing # << >> /\ is_resend
    THEN [ GenApplyAt(existing, user, document_number, code, is_resend, t, t, t)
             EXCEPT !.resend_count = 1 ]
    ELSE GenApplyAt(existing, user, document_number, code, is_resend, t, t, t)

\* (mutant) an overwrite that leaves the stored digest in place
GenApply_keeps_digest(existing, user, document_number, code, is_resend, t) ==
    IF existing # << >>
    THEN [ GenApplyAt(existing, user, document_number, code, is_resend, t, t, t)
             EXCEPT !.pswr = existing[1].pswr ]
    ELSE GenApplyAt(existing, user, document_number, code, is_resend, t, t, t)

\* (mutant) a resend that counts itself and leaves last_resend_at alone
GenApply_resend_without_stamp(existing, user, document_number, code, is_resend, t) ==
    IF existing # << >> /\ is_resend
    THEN [ GenApplyAt(existing, user, document_number, code, is_resend, t, t, t)
             EXCEPT !.last_resend_at = existing[1].last_resend_at ]
    ELSE GenApplyAt(existing, user, document_number, code, is_resend, t, t, t)

\* The same when the clock does not advance during the call
GenApply(existing, user, document_number, code, is_resend, t) ==
    GenApplyAt(existing, user, document_number, code, is_resend, t, t, t)

\* generate_code, line 103: db.commit()
GenCommit(tbl, existing, pending) ==
    IF existing # << >>
    THEN FlushUpdate(tbl, existing[1], pending, {"pswr"})
    ELSE FlushInsert(tbl, pending)

\* generate_code as one call: the response and the table it leaves.  The
\* call starts at clock t and reads the clock again at t1, t2, t3.
generate_code_at(tblP, tbl, document_number, code, is_resend, t, t1, t2, t3) ==
    LET op == IF is_resend THEN "resend" ELSE "generate"
        st == GenLookup(tblP, document_number, t)
    IN  IF st # OK
        THEN [resp |-> Response(op, document_number, << >>, st, "", "", 0), tbl |-> tbl]
        ELSE LET user == tblP[document_number]
                 existing == Query(tbl, DocId(document_number))
                 pending == GenApplyAt(existing, user, document_number, code, is_resend,
                                       t1, t2, t3)
                 w == GenCommit(tbl, existing, pending)
             IN  IF w.ok
                 THEN [resp |-> Response(op, document_number, code, OK, "",
                                         user.correo, 0),
                       tbl |-> w.tbl]
                 ELSE [resp |-> Response(op, document_number, << >>,
                                         HTTP_500_INTERNAL_SERVER_ERROR, "", "", 0),
                       tbl |-> tbl]

\* (mutant) generate_code throttled as a resend is: refused while can_resend
\* refuses the stored row
generate_code_throttled(tblP, tbl, document_number, code, is_resend, t) ==
    LET op == IF is_resend THEN "resend" ELSE "generate"
        existing == Query(tbl, DocId(document_number))
    IN  IF existing # << >> /\ ~ can_resend(existing[1], t).ok
        THEN [resp |-> Response(op, document_number, << >>, HTTP_429_TOO_MANY_REQUESTS,
                                MsgWait, "", 0),
              tbl |-> tbl]
        ELSE generate_code_at(tblP, tbl, document_number, code, is_resend, t, t, t, t)

\* generate_code as one call at clock t, the clock not advancing meanwhile
generate_code(tblP, tbl, document_number, code, is_resend, t) ==
    LET op == IF is_resend THEN "resend" ELSE "generate"
        st == GenLookup(tblP, document_number, t)
    IN  IF st # OK
        THEN [resp |-> Response(op, document_number, << >>, st, "", "", 0), tbl |-> tbl]
        ELSE LET user == tblP[document_number]
                 existing == Query(tbl, DocId(document_number))
                 pending == GenApply(existing, user, document_number, code, is_resend, t)
                 w == GenCommit(tbl, existing, pending)
             IN  IF w.ok
                 THEN [resp |-> Response(op, document_number, code, OK, "",
                                         user.correo, 0),
                       tbl |-> w.tbl]
                 ELSE [resp |-> Response(op, document_number, << >>,
                                         HTTP_500_INTERNAL_SERVER_ERROR, "", "", 0),
                       tbl |-> tbl]

\* (mutant) the expiry test taken with <= : a code is refused at expires_at
ValidateCheck_expire_early(code_instance, code, t) ==
    IF code_instance = << >> THEN MsgNoCode
    ELSE IF code_instance[1].revoked # 0 THEN MsgUsed
    ELSE IF code_instance[1].time_stamp_vencimiento <= t THEN MsgExpired
    ELSE IF ~ verify_code_hash(code, code_instance[1].pswr) THEN MsgIncorrect
    ELSE MsgVerified

\* (mutant) the expiry test taken before the used test
ValidateCheck_expiry_first(code_instance, code, t) ==
    IF code_instance = << >> THEN MsgNoCode
    ELSE IF code_instance[1].time_stamp_vencimiento < t THEN MsgExpired
    ELSE IF code_instance[1].revoked # 0 THEN MsgUsed
    ELSE IF ~ verify_code_hash(code, code_instance[1].pswr) THEN MsgIncorrect
    ELSE MsgVerified

\* validate_code, lines 136-166: the verdict on the loaded object at clock t
ValidateCheck(code_instance, code, t) ==
    IF code_instance = << >> THEN MsgNoCode
    ELSE IF code_instance[1].revoked # 0 THEN MsgUsed
    ELSE IF code_instance[1].time_stamp_vencimiento < t THEN MsgExpired
    ELSE IF ~ verify_code_hash(code, code_instance[1].pswr) THEN MsgIncorrect
    ELSE MsgVerified

\* (mutant) a wrong code burns the stored one: the row is marked used
ValidateFinish_burns_on_wrong(tblP, tbl, code_instance, document_number, code, t) ==
    LET verdict == ValidateCheck(code_instance, code, t)
    IN  IF verdict = MsgIncorrect
        THEN [resp |-> Response("validate", document_number, code,
                                HTTP_401_UNAUTHORIZED, verdict, "", 0),
              tbl |-> FlushUpdate(tbl, code_instance[1],
                                  mark_as_revoked(code_instance[1]), {}).tbl]
        ELSE IF verdict # MsgVerified
        THEN [resp |-> Response("validate", document_number, code,
                                HTTP_401_UNAUTHORIZED, verdict, "", 0),
              tbl |-> tbl]
        ELSE [resp |-> Response("validate", document_number, code, OK, MsgVerified,
                                IF document_number \in DOMAIN tblP
                                THEN tblP[document_number].correo ELSE "", 0),
              tbl |-> FlushUpdate(tbl, code_instance[1],
                                  mark_as_revoked(code_instance[1]), {}).tbl]

\* (mutant) validate refuses a document that generate would refuse
ValidateFinish_needs_profile(tblP, tbl, code_instance, document_number, code, t) ==
    LET verdict == ValidateCheck(code_instance, code, t)
    IN  IF verdict # MsgVerified \/ GenLookup(tblP, document_number, t) # OK
        THEN [resp |-> Response("validate", document_number, code,
                                HTTP_401_UNAUTHORIZED,
                                IF verdict # MsgVerified THEN verdict ELSE MsgNoCode,
                                "", 0),
              tbl |-> tbl]
        ELSE [resp |-> Response("validate", document_number, code, OK, MsgVerified,
                                tblP[document_number].correo, 0),
              tbl |-> FlushUpdate(tbl, code_instance[1],
                                  mark_as_revoked(code_instance[1]), {}).tbl]

\* validate_code, lines 136-193, on the object the session loaded
ValidateFinish(tblP, tbl, code_instance, document_number, code, t) ==
    LET verdict == ValidateCheck(code_instance, code, t)
    IN  IF verdict # MsgVerified
        THEN [resp |-> Response("validate", document_number, code,
                                HTTP_401_UNAUTHORIZED, verdict, "", 0),
              tbl |-> tbl]
        ELSE LET w == FlushUpdate(tbl, code_instance[1],
                                  mark_as_revoked(code_instance[1]), {})
             IN  IF w.ok
                 THEN [resp |-> Response("validate", document_number, code, OK,
                                         MsgVerified,
                                         IF document_number \in DOMAIN tblP
                                         THEN tblP[document_number].correo ELSE "", 0),
                       tbl |-> w.tbl]
                 ELSE [resp |-> Response("validate", document_number, code,
                                         HTTP_500_INTERNAL_SERVER_ERROR, "", "", 0),
                       tbl |-> tbl]

\* validate_code as one call at clock t
validate_code(tblP, tbl, document_number, code, t) ==
    ValidateFinish(tblP, tbl, Query(tbl, DocId(document_number)),
                   document_number, code, t)

\* resend_code, lines 213-229: the throttle verdict on the loaded object
ResendCheck(existing_code, t) ==
    IF existing_code = << >>
    THEN [ok |-> TRUE, msg |-> "", wait |-> 0]
    ELSE LET c == can_resend(existing_code[1], t)
         IN  [ok |-> c.ok, msg |-> c.msg, wait |-> c.wait]

\* (mutant) a resend that writes the new code before it is refused
resend_code_writes_first(tblP, tbl, document_number, code, t) ==
    LET chk == ResendCheck(Query(tbl, DocId(document_number)), t)
        g == generate_code(tblP, tbl, document_number, code, TRUE, t)
    IN  IF ~ chk.ok
        THEN [resp |-> Response("resend", document_number, << >>,
                                HTTP_429_TOO_MANY_REQUESTS, chk.msg, "", chk.wait),
              tbl |-> g.tbl]
        ELSE g

\* (mutant) a resend that records the attempt it refuses
resend_code_counts_refused(tblP, tbl, document_number, code, t) ==
    LET id == DocId(document_number)
        chk == ResendCheck(Query(tbl, id), t)
    IN  IF ~ chk.ok
        THEN [resp |-> Response("resend", document_number, << >>,
                                HTTP_429_TOO_MANY_REQUESTS, chk.msg, "", chk.wait),
              tbl |-> With(tbl, id, [tbl[id] EXCEPT !.last_resend_at = t])]
        ELSE generate_code(tblP, tbl, document_number, code, TRUE, t)

\* resend_code as one call at clock t; the session that ran can_resend is
\* closed without a commit, and generate_code opens its own
resend_code(tblP, tbl, document_number, code, t) ==
    LET chk == ResendCheck(Query(tbl, DocId(document_number)), t)
    IN  IF ~ chk.ok
        THEN [resp |-> Response("resend", document_number, << >>,
                                HTTP_429_TOO_MANY_REQUESTS, chk.msg, "", chk.wait),
              tbl |-> tbl]
        ELSE generate_code(tblP, tbl, document_number, code, TRUE, t)

\* (mutant) a sweep that also deletes the rows expiring at this very instant
cleanup_expired_codes_due(tbl, t) ==
    LET gone == { i \in DOMAIN tbl :
                    /\ tbl[i].time_stamp_vencimiento <= t
                    /\ tbl[i].revoked = 0 }
    IN  [resp |-> Response("cleanup", << >>, << >>, OK, "", "", Cardinality(gone)),
         tbl |-> Without(tbl, gone)]

\* cleanup_expired_codes at clock t: one DELETE, and the rows it deleted
cleanup_expired_codes(tbl, t) ==
    LET gone == { i \in DOMAIN tbl :
                    /\ tbl[i].time_stamp_vencimiento < t
                    /\ tbl[i].revoked = 0 }
    IN  [resp |-> Response("cleanup", << >>, << >>, OK, "", "", Cardinality(gone)),
         tbl |-> Without(tbl, gone)]

\* ------------------------------------------------------------ storage failures
\* The round trip to the database that raises in a call, if any: the SELECT
\* on stg_personal of generate_code ("lookup"), the query that loads the row
\* ("query"; "check" is the one of resend_code), db.commit() ("commit"), the
\* SELECT on stg_personal of validate_code ("profile").
GenerateFaults == { "none", "lookup", "query", "commit" }
ValidateFaults == { "none", "query", "commit", "profile" }
ResendFaults == { "check" } \cup GenerateFaults

\* except Exception: db.rollback(); raise HTTPException(500)
Fault(op, d, code, tbl) ==
    [resp |-> Response(op, d, code, HTTP_500_INTERNAL_SERVER_ERROR, "", "", 0),
     tbl |-> tbl]

\* generate_code when the round trip fail raises (lines 113-121: whatever was
\* pending is rolled back)
generate_code_io(tblP, tbl, document_number, code, is_resend, t, fail) ==
    LET op == IF is_resend THEN "resend" ELSE "generate"
    IN  IF fail = "lookup" THEN Fault(op, document_number, << >>, tbl)
        ELSE IF GenLookup(tblP, document_number, t) # OK
        THEN generate_code(tblP, tbl, document_number, code, is_resend, t)
        ELSE IF fail \in {"query", "commit"} THEN Fault(op, document_number, << >>, tbl)
        ELSE generate_code(tblP, tbl, document_number, code, is_resend, t)

\* validate_code when the round trip fail raises (lines 195-201); the SELECT
\* of lines 171-179 runs after the commit of line 169
validate_code_io(tblP, tbl, document_number, code, t, fail) ==
    LET r == validate_code(tblP, tbl, document_number, code, t)
    IN  IF fail = "query" THEN Fault("validate", document_number, code, tbl)
        ELSE IF r.resp.status # OK THEN r
        ELSE IF fail = "commit" THEN Fault("validate", document_number, code, tbl)
        ELSE IF fail = "profile" THEN Fault("validate", document_number, code, r.tbl)
        ELSE r

\* resend_code when the round trip fail raises (lines 241-246)
resend_code_io(tblP, tbl, document_number, code, t, fail) ==
    IF fail = "check" THEN Fault("resend", document_number, << >>, tbl)
    ELSE IF ~ ResendCheck(Query(tbl, DocId(document_number)), t).ok
    THEN resend_code(tblP, tbl, document_number, code, t)
    ELSE generate_code_io(tblP, tbl, document_number, code, TRUE, t, fail)

\* ------------------------------------------------------------ the endpoints
\* What the endpoint leaves: the response, the table, and what
\* send_verification_code returned ("none": it was not called)
Outcome(r, sent) ==
    [resp |-> r.resp, tbl |-> r.tbl,
     email |-> IF r.resp.status # OK THEN "none"
               ELSE IF sent THEN "sent" ELSE "failed"]

\* (mutant) an endpoint that undoes the call when the email was not sent
post_request_code_undo(tblP, tbl, document_number, code, t, fail, sent) ==
    LET r == generate_code_io(tblP, tbl, document_number, code, FALSE, t, fail)
    IN  IF r.resp.status = OK /\ ~ sent
        THEN [resp |-> Fault("generate", document_number, << >>, tbl).resp,
              tbl |-> tbl, email |-> "failed"]
        ELSE Outcome(r, sent)

\* POST /auth/request-code: generate_code, then send_verification_code, whose
\* result (sent) is logged only
post_request_code(tblP, tbl, document_number, code, t, fail, sent) ==
    Outcome(generate_code_io(tblP, tbl, document_number, code, FALSE, t, fail), sent)

\* POST /auth/resend-code: resend_code, then send_verification_code
post_resend_code(tblP, tbl, document_number, code, t, fail, sent) ==
    Outcome(resend_code_io(tblP, tbl, document_number, code, t, fail), sent)

\* POST /auth/verify-code: validate_code; no email
post_verify_code(tblP, tbl, document_number, code, t, fail) ==
    LET r == validate_code_io(tblP, tbl, document_number, code, t, fail)
    IN  [resp |-> r.resp, tbl |-> r.tbl, email |-> "none"]


\* ------------------------------------------------------------ initial state
Procs == 1 .. NumProcs

\* Rows of dbo.stg_personal
Employee(correo, movil, dt_fin_contrato) ==
    [correo |-> correo, movil |-> movil, dt_fin_contrato |-> dt_fin_contrato,
     ds_empleado |-> "EMPLEADO"]

\* The contents of dbo.stg_personal the model starts from (the service never
\* writes it): the document of an employee without an end date, of one whose
\* contract ended two days ago, or of nobody.
PersonalTables ==
    { ( <<1, 2, 3>> :> Employee("ana@red.co", <<3, 0, 0>>, NULL) ),
      ( <<1, 2, 3>> :> Employee("ana@red.co", << >>, -2) ),
      EmptyTable }

\* The contents of dbo.stg_personal in the environment specification: the
\* document of an employee with no end date, with an end date in the past,
\* today, or in the future, or of nobody.
EnvTables ==
    { ( <<1, 2, 3>> :> Employee("ana@red.co", <<3, 0, 0>>, NULL) ),
      ( <<1, 2, 3>> :> Employee("ana@red.co", <<3, 0, 0>>, -2) ),
      ( <<1, 2, 3>> :> Employee("ana@red.co", <<3, 0, 0>>, 0) ),
      ( <<1, 2, 3>> :> Employee("ana@red.co", <<3, 0, 0>>, 1) ),
      EmptyTable }

\* A request in flight: the call, its arguments, and generate_code's is_resend
Request(op, d, code, is_resend) ==
    [op |-> op, doc |-> d, code |-> code, is_resend |-> is_resend]

NoRequest == Request("none", << >>, << >>, FALSE)

\* What a session holds: the row of stg_personal fetched, the code drawn, and
\* the CodeVerification object loaded (each absent as the empty tuple)
Loaded(user, code, existing) == [user |-> user, code |-> code, existing |-> existing]

NoObject == Loaded(<< >>, << >>, << >>)

Init ==
    /\ now = 0
    /\ personal \in PersonalTables
    /\ store = EmptyTable
    /\ resp = NoResponse
    /\ pc = [p \in Procs |-> "idle"]
    /\ req = [p \in Procs |-> NoRequest]
    /\ obj = [p \in Procs |-> NoObject]
    /\ mailbox = [d \in Docs |-> << >>]
    /\ presented = [d \in Docs |-> FALSE]
    /\ streak = [d \in Docs |-> 0]
    /\ window_start = [d \in Docs |-> NULL]
    /\ ok_validates = [d \in Docs |-> 0]
    /\ ok_resends = [d \in Docs |-> 0]
    /\ calls = 0
    /\ email_sent = "none"
    /\ before = EmptyTable

\* ------------------------------------------------------------ whole calls
\* POST /auth/request-code: CodeService.generate_code(document_number)
Generate(d, c) ==
    LET r == generate_code(personal, store, d, c, FALSE, now)
    IN  /\ store' = r.tbl
        /\ resp' = r.resp
        /\ UNCHANGED <<now, personal>>

\* POST /auth/resend-code: CodeService.resend_code(document_number)
Resend(d, c) ==
    LET r == resend_code(personal, store, d, c, now)
    IN  /\ store' = r.tbl
        /\ resp' = r.resp
        /\ UNCHANGED <<now, personal>>

\* POST /auth/verify-code: CodeService.validate_code(document_number, code)
Validate(d, c) ==
    LET r == validate_code(personal, store, d, c, now)
    IN  /\ store' = r.tbl
        /\ resp' = r.resp
        /\ UNCHANGED <<now, personal>>

\* CodeService.cleanup_expired_codes()
Cleanup ==
    LET r == cleanup_expired_codes(store, now)
    IN  /\ store' = r.tbl
        /\ resp' = r.resp
        /\ UNCHANGED <<now, personal>>

\* One minute passes
Tick(max) ==
    /\ now < max
    /\ now' = now + 1
    /\ UNCHANGED <<personal, store, resp>>

\* ------------------------------------------------------------ history
\* A successful generate or resend hands a new code to the caller
Issued(d) ==
    /\ mailbox' = IF resp'.status = OK THEN [mailbox EXCEPT ![d] = resp'.code] ELSE mailbox
    /\ presented' = IF resp'.status = OK THEN [presented EXCEPT ![d] = FALSE] ELSE presented

\* The resend call about to run is spaced from the one before it in the
\* streak (every call of a streak succeeded, and wrote time_stamp_generacion)
Spaced(d) ==
    \/ streak[d] = 0
    \/ /\ DocId(d) \in DOMAIN store
       /\ now - store[DocId(d)].time_stamp_generacion >= CODE_RESEND_DELAY_MINUTES

\* ------------------------------------------------------------ Spec: calls one after another
GenerateCall(d, c) ==
    /\ Generate(d, c)
    /\ Issued(d)
    /\ streak' = IF resp'.status = OK THEN [streak EXCEPT ![d] = 0] ELSE streak
    /\ UNCHANGED <<procvars, window_start, ok_validates, ok_resends, calls, email_sent, before>>

ResendCall(d, c) ==
    /\ Resend(d, c)
    /\ Issued(d)
    /\ streak' = [streak EXCEPT ![d] =
                    IF streak[d] # NULL /\ Spaced(d) /\ resp'.status = OK
                    THEN streak[d] + 1 ELSE NULL]
    /\ UNCHANGED <<procvars, window_start, ok_validates, ok_resends, calls, email_sent, before>>

ValidateCall(d, c) ==
    /\ Validate(d, c)
    /\ presented' = IF c = mailbox[d] THEN [presented EXCEPT ![d] = TRUE] ELSE presented
    /\ UNCHANGED <<procvars, mailbox, streak, window_start, ok_validates, ok_resends, calls, email_sent, before>>

CleanupCall ==
    /\ Cleanup
    /\ streak' = [d \in Docs |-> IF DocId(d) \in DOMAIN store' THEN streak[d] ELSE 0]
    /\ UNCHANGED <<procvars, mailbox, presented, window_start, ok_validates, ok_resends, calls, email_sent, before>>

TickCall ==
    /\ Tick(MaxTime)
    /\ UNCHANGED <<procvars, histvars>>

Next ==
    \/ \E d \in Docs, c \in Codes : GenerateCall(d, c)
    \/ \E d \in Docs, c \in Codes : ResendCall(d, c)
    \/ \E d \in Docs, c \in Codes : ValidateCall(d, c)
    \/ CleanupCall
    \/ TickCall

Spec == Init /\ [][Next]_vars


\* ------------------------------------------------------------ SpecHour: the resend window
\* generate and resend alone, over more than one hour
\* The throttle check of the resend about to run resets the counter
ResetsCounter(d) ==
    /\ DocId(d) \in DOMAIN store
    /\ can_resend(store[DocId(d)], now).ok
    /\ can_resend(store[DocId(d)], now).self.resend_count
          # store[DocId(d)].resend_count

\* A resend window opens with a fresh generate, with the first row of a
\* document, and when the throttle check resets the counter
GenerateHour(d, c) ==
    /\ Generate(d, c)
    /\ window_start' = IF resp'.status = OK
                       THEN [window_start EXCEPT ![d] = now] ELSE window_start
    /\ UNCHANGED <<procvars, mailbox, presented, streak, ok_validates, ok_resends, calls, email_sent, before>>

ResendHour(d, c) ==
    /\ Resend(d, c)
    /\ window_start' = IF resp'.status = OK /\ (DocId(d) \notin DOMAIN store \/ ResetsCounter(d))
                       THEN [window_start EXCEPT ![d] = now] ELSE window_start
    /\ UNCHANGED <<procvars, mailbox, presented, streak, ok_validates, ok_resends, calls, email_sent, before>>

TickHour ==
    /\ Tick(MaxTimeHour)
    /\ UNCHANGED <<procvars, histvars>>

NextHour ==
    \/ \E d \in Docs, c \in FewCodes : GenerateHour(d, c)
    \/ \E d \in Docs, c \in FewCodes : ResendHour(d, c)
    \/ TickHour

SpecHour == Init /\ [][NextHour]_vars

\* ------------------------------------------------------------ SpecConc: requests in parallel
\* Each request runs in its own session (SessionLocal()), with no row lock
\* and no version check; a step is one round trip to the database, and the
\* database runs the steps of the requests in any order.

\* A request arrives at the idle worker p (the model takes MaxCalls of them)
Arrives(p) ==
    /\ pc[p] = "idle"
    /\ calls < MaxCalls
    /\ calls' = calls + 1
    /\ UNCHANGED <<mailbox, presented, streak, window_start, ok_validates, ok_resends,
                   email_sent, before>>

\* The request p returns r
Return(p, r) ==
    /\ resp' = r
    /\ pc' = [pc EXCEPT ![p] = "idle"]
    /\ req' = [req EXCEPT ![p] = NoRequest]
    /\ obj' = [obj EXCEPT ![p] = NoObject]

\* generate_code, lines 37-61, for the request p
LookupStep(p, rq) ==
    LET st == GenLookup(personal, rq.doc, now)
    IN  IF st # OK
        THEN /\ Return(p, Response(rq.op, rq.doc, << >>, st, "", "", 0))
        ELSE /\ pc' = [pc EXCEPT ![p] = "g_query"]
             /\ req' = [req EXCEPT ![p] = rq]
             /\ obj' = [obj EXCEPT ![p] = Loaded(<< personal[rq.doc] >>, << >>, << >>)]
             /\ resp' = resp

\* POST /auth/request-code arrives: generate_code up to its lookup
ConcGenerate(p, d) ==
    /\ Arrives(p)
    /\ LookupStep(p, Request("generate", d, << >>, FALSE))
    /\ UNCHANGED <<now, personal, store>>

\* POST /auth/resend-code arrives: resend_code, lines 210-232
ConcResend(p, d) ==
    /\ Arrives(p)
    /\ LET chk == ResendCheck(Query(store, DocId(d)), now)
       IN  IF ~ chk.ok
           THEN Return(p, Response("resend", d, << >>, HTTP_429_TOO_MANY_REQUESTS,
                                   chk.msg, "", chk.wait))
           ELSE /\ pc' = [pc EXCEPT ![p] = "g_lookup"]
                /\ req' = [req EXCEPT ![p] = Request("resend", d, << >>, TRUE)]
                /\ UNCHANGED <<obj, resp>>
    /\ UNCHANGED <<now, personal, store>>

\* resend_code, line 235: generate_code(document_number, is_resend=True)
\* up to its lookup
ConcLookup(p) ==
    /\ pc[p] = "g_lookup"
    /\ LookupStep(p, req[p])
    /\ UNCHANGED <<now, personal, store, histvars>>

\* generate_code, lines 63-75: the code is drawn and the row is loaded
ConcQuery(p, c) ==
    /\ pc[p] = "g_query"
    /\ pc' = [pc EXCEPT ![p] = "g_commit"]
    /\ obj' = [obj EXCEPT ![p] = Loaded(obj[p].user, c, Query(store, DocId(req[p].doc)))]
    /\ UNCHANGED <<now, personal, store, resp, req, histvars>>

\* generate_code, lines 77-121: the object is updated or created, committed,
\* and the call returns
ConcCommit(p) ==
    /\ pc[p] = "g_commit"
    /\ LET d == req[p].doc
           pending == GenApply(obj[p].existing, obj[p].user[1], d, obj[p].code,
                               req[p].is_resend, now)
           w == GenCommit(store, obj[p].existing, pending)
       IN  /\ store' = w.tbl
           /\ IF w.ok
              THEN /\ Return(p, Response(req[p].op, d, obj[p].code, OK, "",
                                         obj[p].user[1].correo, 0))
                   /\ ok_validates' = [ok_validates EXCEPT ![d] = 0]
                   /\ ok_resends' = [ok_resends EXCEPT ![d] =
                                       IF req[p].is_resend /\ obj[p].existing # << >>
                                       THEN ok_resends[d] + 1 ELSE 0]
              ELSE /\ Return(p, Response(req[p].op, d, << >>,
                                         HTTP_500_INTERNAL_SERVER_ERROR, "", "", 0))
                   /\ UNCHANGED <<ok_validates, ok_resends>>
    /\ UNCHANGED <<now, personal, mailbox, presented, streak, window_start, calls,
                   email_sent, before>>

\* POST /auth/verify-code arrives: validate_code, lines 130-134
ConcValidate(p, d, c) ==
    /\ Arrives(p)
    /\ pc' = [pc EXCEPT ![p] = "v_loaded"]
    /\ req' = [req EXCEPT ![p] = Request("validate", d, c, FALSE)]
    /\ obj' = [obj EXCEPT ![p] = Loaded(<< >>, << >>, Query(store, DocId(d)))]
    /\ UNCHANGED <<now, personal, store, resp>>

\* validate_code, lines 136-203: the checks, the commit and the return
ConcValidateFinish(p) ==
    /\ pc[p] = "v_loaded"
    /\ LET d == req[p].doc
           r == ValidateFinish(personal, store, obj[p].existing, d, req[p].code, now)
       IN  /\ store' = r.tbl
           /\ Return(p, r.resp)
           /\ ok_validates' = IF r.resp.status = OK
                              THEN [ok_validates EXCEPT ![d] = ok_validates[d] + 1]
                              ELSE ok_validates
    /\ UNCHANGED <<now, personal, mailbox, presented, streak, window_start, ok_resends,
                   calls, email_sent, before>>

TickConc ==
    /\ Tick(MaxTimeConc)
    /\ UNCHANGED <<procvars, histvars>>

NextConc ==
    \/ \E p \in Procs, d \in Docs : ConcGenerate(p, d)
    \/ \E p \in Procs, d \in Docs : ConcResend(p, d)
    \/ \E p \in Procs : ConcLookup(p)
    \/ \E p \in Procs, c \in ConcCodes : ConcQuery(p, c)
    \/ \E p \in Procs : ConcCommit(p)
    \/ \E p \in Procs, d \in Docs, c \in ConcCodes : ConcValidate(p, d, c)
    \/ \E p \in Procs : ConcValidateFinish(p)
    \/ TickConc

SpecConc == Init /\ [][NextConc]_vars

\* ------------------------------------------------------------ SpecSweep: the sweep among requests
\* The requests of the concurrent specification, and the sweep: its DELETE
\* and commit are one statement of the database, run between the steps of
\* the requests in flight.
ConcCleanup ==
    /\ Cleanup
    /\ UNCHANGED <<procvars, histvars>>

\* The instants at which the sweep specification takes requests: the first
\* two minutes, and the minutes from the expiry of the first code on.
SweepInstants == {0, 1} \cup (CODE_EXPIRATION_MINUTES .. MaxTimeSweep)

\* The clock reaches the next of these instants
TickSweep ==
    /\ \E t \in SweepInstants :
          /\ t > now
          /\ \A u \in SweepInstants : u > now => t <= u
          /\ now' = t
    /\ UNCHANGED <<personal, store, resp, procvars, histvars>>

NextSweep ==
    \/ \E p \in Procs, d \in Docs : ConcGenerate(p, d)
    \/ \E p \in Procs, d \in Docs : ConcResend(p, d)
    \/ \E p \in Procs : ConcLookup(p)
    \/ \E p \in Procs, c \in FewCodes : ConcQuery(p, c)
    \/ \E p \in Procs : ConcCommit(p)
    \/ \E p \in Procs, d \in Docs, c \in FewCodes : ConcValidate(p, d, c)
    \/ \E p \in Procs : ConcValidateFinish(p)
    \/ ConcCleanup
    \/ TickSweep

SpecSweep == Init /\ [][NextSweep]_vars

\* ------------------------------------------------------------ SpecEnv: the collaborators
\* Calls one after another through the endpoints, with what the service does
\* not control: a round trip to the database that raises, an email that is
\* not sent, and dbo.stg_personal as its loader rewrites it.
InitEnv ==
    /\ Init
    /\ personal \in EnvTables

\* The call returned r: the table, the response, the email, the code handed out
Returned(d, r) ==
    /\ store' = r.tbl
    /\ resp' = r.resp
    /\ email_sent' = IF r.email = "none" THEN email_sent ELSE r.email
    /\ before' = store
    /\ UNCHANGED <<now, personal, procvars, streak, window_start, ok_validates,
                   ok_resends, calls>>

GenerateEnv(d, c, fail, sent) ==
    /\ Returned(d, post_request_code(personal, store, d, c, now, fail, sent))
    /\ Issued(d)

ResendEnv(d, c, fail, sent) ==
    /\ Returned(d, post_resend_code(personal, store, d, c, now, fail, sent))
    /\ Issued(d)

ValidateEnv(d, c, fail) ==
    /\ Returned(d, post_verify_code(personal, store, d, c, now, fail))
    /\ UNCHANGED <<mailbox, presented>>

CleanupEnv ==
    /\ Cleanup
    /\ UNCHANGED <<procvars, histvars>>

\* The loader of dbo.stg_personal rewrites the employee's row
ContractChange(tblP) ==
    /\ tblP # personal
    /\ personal' = tblP
    /\ UNCHANGED <<now, store, resp, procvars, histvars>>

TickEnv ==
    /\ Tick(MaxTimeEnv)
    /\ UNCHANGED <<procvars, histvars>>

NextEnv ==
    \/ \E d \in Docs, c \in EnvCodes, fail \in GenerateFaults, sent \in BOOLEAN :
          GenerateEnv(d, c, fail, sent)
    \/ \E d \in Docs, c \in EnvCodes, fail \in ResendFaults, sent \in BOOLEAN :
          ResendEnv(d, c, fail, sent)
    \/ \E d \in Docs, c \in EnvCodes, fail \in ValidateFaults : ValidateEnv(d, c, fail)
    \/ CleanupEnv
    \/ \E tblP \in EnvTables : ContractChange(tblP)
    \/ TickEnv

SpecEnv == InitEnv /\ [][NextEnv]_vars

\* ------------------------------------------------------------ SpecClock: the clock during a call
\* Calls one after another, the clock advancing by a or b minutes between
\* the reads of datetime.utcnow() one call makes.
GenerateClock(d, c, a, b) ==
    /\ now + a + b <= MaxTimeClock
    /\ LET r == generate_code_at(personal, store, d, c, FALSE,
                                 now, now, now + a, now + a + b)
       IN  /\ store' = r.tbl
           /\ resp' = r.resp
    /\ now' = now + a + b
    /\ UNCHANGED <<personal, procvars, histvars>>

ResendClock(d, c, a, b) ==
    /\ now + a + b <= MaxTimeClock
    /\ LET chk == ResendCheck(Query(store, DocId(d)), now)
           r == IF ~ chk.ok
                THEN resend_code(personal, store, d, c, now)
                ELSE generate_code_at(personal, store, d, c, TRUE,
                                      now, now, now + a, now + a + b)
       IN  /\ store' = r.tbl
           /\ resp' = r.resp
    /\ now' = now + a + b
    /\ UNCHANGED <<personal, procvars, histvars>>

TickClock ==
    /\ Tick(MaxTimeClock)
    /\ UNCHANGED <<procvars, histvars>>

NextClock ==
    \/ \E d \in Docs, c \in FewCodes, a \in {0, 1}, b \in {0, 1} : GenerateClock(d, c, a, b)
    \/ \E d \in Docs, c \in FewCodes, a \in {0, 1}, b \in {0, 1} : ResendClock(d, c, a, b)
    \/ TickClock

SpecClock == Init /\ [][NextClock]_vars

\* ------------------------------------------------------------ SpecIds: several documents
\* The request schemas (schemas/auth.py): document_number as the client sends
\* it, a string of characters; a digit is 0..9, NotADigit any other character
NotADigit == 10
IsDigit(ch) == ch \in 0 .. 9
MIN_DOCUMENT_DIGITS == 3

\* re.sub(r'[^\d]', '', v): leading zeros are kept
clean_doc(v) == SelectSeq(v, IsDigit)

\* validate_document_number: the cleaned string, or the ValueError
validate_document_number(v) ==
    [ok |-> Len(clean_doc(v)) >= MIN_DOCUMENT_DIGITS, value |-> clean_doc(v)]

\* What clients send: "123", "0123", "1-23" and "12"
RawDocs == { <<1, 2, 3>>, <<0, 1, 2, 3>>, <<1, NotADigit, 2, 3>>, <<1, 2>> }

\* The document numbers that reach the service
IdDocs == { validate_document_number(v).value :
              v \in { w \in RawDocs : validate_document_number(w).ok } }

\* dbo.stg_personal with the employee 123 alone, and with an employee 0123
\* beside them
IdTables ==
    { ( <<1, 2, 3>> :> Employee("ana@red.co", <<3, 0, 0>>, NULL) ),
      ( <<1, 2, 3>> :> Employee("ana@red.co", <<3, 0, 0>>, NULL) )
        @@ ( <<0, 1, 2, 3>> :> Employee("luz@red.co", <<3, 0, 1>>, NULL) ) }

InitIds ==
    /\ now = 0
    /\ personal \in IdTables
    /\ store = EmptyTable
    /\ resp = NoResponse
    /\ pc = [p \in Procs |-> "idle"]
    /\ req = [p \in Procs |-> NoRequest]
    /\ obj = [p \in Procs |-> NoObject]
    /\ mailbox = [d \in IdDocs |-> << >>]
    /\ presented = [d \in IdDocs |-> FALSE]
    /\ streak = [d \in IdDocs |-> 0]
    /\ window_start = [d \in IdDocs |-> NULL]
    /\ ok_validates = [d \in IdDocs |-> 0]
    /\ ok_resends = [d \in IdDocs |-> 0]
    /\ calls = 0
    /\ email_sent = "none"
    /\ before = EmptyTable

\* The request body fails validation: FastAPI answers 422, no handler runs
RejectIds(op, v) ==
    /\ ~ validate_document_number(v).ok
    /\ resp' = Response(op, v, << >>, HTTP_422_UNPROCESSABLE_ENTITY, "", "", 0)
    /\ UNCHANGED <<now, personal, store, procvars, histvars>>

GenerateIds(v, c) ==
    /\ validate_document_number(v).ok
    /\ Generate(validate_document_number(v).value, c)
    /\ Issued(validate_document_number(v).value)
    /\ before' = store
    /\ UNCHANGED <<procvars, streak, window_start, ok_validates, ok_resends, calls, email_sent>>

ResendIds(v, c) ==
    /\ validate_document_number(v).ok
    /\ Resend(validate_document_number(v).value, c)
    /\ Issued(validate_document_number(v).value)
    /\ before' = store
    /\ UNCHANGED <<procvars, streak, window_start, ok_validates, ok_resends, calls, email_sent>>

ValidateIds(v, c) ==
    /\ validate_document_number(v).ok
    /\ Validate(validate_document_number(v).value, c)
    /\ before' = store
    /\ UNCHANGED <<procvars, mailbox, presented, streak, window_start, ok_validates, ok_resends, calls, email_sent>>

TickIds ==
    /\ Tick(MaxTimeIds)
    /\ UNCHANGED <<procvars, histvars>>

NextIds ==
    \/ \E op \in {"generate", "resend", "validate"}, v \in RawDocs : RejectIds(op, v)
    \/ \E v \in RawDocs, c \in EnvCodes : GenerateIds(v, c)
    \/ \E v \in RawDocs, c \in EnvCodes : ResendIds(v, c)
    \/ \E v \in RawDocs, c \in EnvCodes : ValidateIds(v, c)
    \/ TickIds

SpecIds == InitIds /\ [][NextIds]_vars

\* ------------------------------------------------------------ SpecLife: the life of a row
\* generate, resend, validate and the sweep, one call after another, at the
\* instants that matter to the resend counters: a full quota of resends one
\* delay apart, the expiry of the last code, and one hour after it was issued
LifeInstants ==
    { t \in 0 .. MaxTimeLife :
        \/ \E k \in 0 .. CODE_MAX_RESEND_PER_HOUR : t = k * CODE_RESEND_DELAY_MINUTES
        \/ t = CODE_MAX_RESEND_PER_HOUR * CODE_RESEND_DELAY_MINUTES
                + CODE_EXPIRATION_MINUTES + 1
        \/ t = CODE_MAX_RESEND_PER_HOUR * CODE_RESEND_DELAY_MINUTES + MINUTES_PER_HOUR }

GenerateLife(d, c) ==
    /\ Generate(d, c)
    /\ Issued(d)
    /\ before' = store
    /\ UNCHANGED <<procvars, streak, window_start, ok_validates, ok_resends, calls, email_sent>>

ResendLife(d, c) ==
    /\ Resend(d, c)
    /\ Issued(d)
    /\ before' = store
    /\ UNCHANGED <<procvars, streak, window_start, ok_validates, ok_resends, calls, email_sent>>

ValidateLife(d, c) ==
    /\ Validate(d, c)
    /\ UNCHANGED <<procvars, histvars>>

CleanupLife ==
    /\ Cleanup
    /\ UNCHANGED <<procvars, histvars>>

\* The clock reaches the next of the instants
TickLife ==
    /\ \E t \in LifeInstants :
          /\ t > now
          /\ \A u \in LifeInstants : u > now => t <= u
          /\ now' = t
    /\ UNCHANGED <<personal, store, resp, procvars, histvars>>

NextLife ==
    \/ \E d \in Docs, c \in EnvCodes : GenerateLife(d, c)
    \/ \E d \in Docs, c \in EnvCodes : ResendLife(d, c)
    \/ \E d \in Docs, c \in EnvCodes : ValidateLife(d, c)
    \/ CleanupLife
    \/ TickLife

SpecLife == Init /\ [][NextLife]_vars

\* ------------------------------------------------------------ claims
\* The row of document d, when it has one
HasRow(d) == DocId(d) \in DOMAIN store
Row(d) == store[DocId(d)]

\* The step is the call validate(d, c), generate(d) or resend(d) returning c
ValidateStep(d, c) ==
    /\ resp'.op = "validate" /\ resp'.doc = d /\ resp'.code = c
    /\ ValidateCall(d, c)
GenerateStep(d, c) ==
    /\ resp'.op = "generate" /\ resp'.doc = d
    /\ GenerateCall(d, c)
ResendStep(d, c) ==
    /\ resp'.op = "resend" /\ resp'.doc = d
    /\ ResendCall(d, c)

\* C1: after a successful generate (or resend) the document has its row, and
\* the row stays while its expires_at has not passed; with no later generate
\* or resend and now <= expires_at, the first validate with the returned code
\* succeeds and sets revoked, and every later validate with that code is
\* refused as already used.
C1_ValidateOnce ==
    [][ /\ \A d \in Docs, c \in Codes :
             (resp'.status = OK /\ (GenerateStep(d, c) \/ ResendStep(d, c)))
                => /\ DocId(d) \in DOMAIN store'
                   /\ store'[DocId(d)].revoked = 0
        /\ \A i \in DOMAIN store :
             now' <= store[i].time_stamp_vencimiento => i \in DOMAIN store'
        /\ \A d \in Docs, c \in Codes :
             ( /\ ValidateStep(d, c)
               /\ mailbox[d] # << >> /\ c = mailbox[d]
               /\ HasRow(d) /\ now <= Row(d).time_stamp_vencimiento )
                => IF ~ presented[d]
                   THEN /\ resp'.status = OK
                        /\ resp'.detail = MsgVerified
                        /\ store'[DocId(d)].revoked = 1
                   ELSE /\ resp'.detail = MsgUsed
                        /\ store' = store ]_vars

\* C1 witness: the returned code was validated, and given again before its
\* expiry it is refused as used
C1_Witness ==
    \E d \in Docs :
        /\ resp.op = "validate" /\ resp.doc = d
        /\ mailbox[d] # << >> /\ resp.code = mailbox[d]
        /\ presented[d]
        /\ resp.detail = MsgUsed
        /\ HasRow(d) /\ now <= Row(d).time_stamp_vencimiento

\* C8: on an unused row validate answers "expired" exactly when
\* now > expires_at, whatever the code; at now = expires_at the returned code
\* still validates.
C8_ExpiredExactly ==
    [][ \A d \in Docs, c \in Codes :
          (ValidateStep(d, c) /\ HasRow(d) /\ Row(d).revoked = 0)
             => /\ (resp'.detail = MsgExpired) <=> (now > Row(d).time_stamp_vencimiento)
                /\ (now = Row(d).time_stamp_vencimiento /\ c = mailbox[d])
                      => (resp'.status = OK /\ resp'.detail = MsgVerified) ]_vars

\* C8 witness: the returned code, never used, is refused as expired one
\* minute after expires_at
C8_Witness ==
    \E d \in Docs :
        /\ resp.op = "validate" /\ resp.doc = d
        /\ resp.code = mailbox[d]
        /\ resp.detail = MsgExpired
        /\ HasRow(d) /\ Row(d).revoked = 0
        /\ now = Row(d).time_stamp_vencimiento + 1

\* C9: on an unused, unexpired row holding the returned code, validate with
\* any other code answers "incorrect" and writes nothing, also when the code
\* differs from the right one in a single digit.
C9_WrongCodeIncorrect ==
    [][ \A d \in Docs, c \in Codes :
          ( /\ ValidateStep(d, c)
            /\ HasRow(d) /\ Row(d).revoked = 0
            /\ now <= Row(d).time_stamp_vencimiento
            /\ mailbox[d] # << >> /\ c # mailbox[d] )
             => /\ resp'.status = HTTP_401_UNAUTHORIZED
                /\ resp'.detail = MsgIncorrect
                /\ store' = store ]_vars

\* C9 witness: a code that shares its first five digits with the returned
\* one was refused as incorrect
C9_Witness ==
    \E d \in Docs :
        /\ resp.op = "validate" /\ resp.doc = d
        /\ resp.detail = MsgIncorrect
        /\ mailbox[d] # << >> /\ resp.code # mailbox[d]
        /\ SubSeq(resp.code, 1, 5) = SubSeq(mailbox[d], 1, 5)
        /\ HasRow(d) /\ Row(d).revoked = 0
        /\ now <= Row(d).time_stamp_vencimiento

\* C10: validate tests not-found, used, expired, incorrect in this order: a
\* used row answers "used" expired or not and whatever the code, an unused
\* expired row answers "expired" whatever the code, and "incorrect" is
\* answered only for an unused, unexpired row.
C10_CheckOrder ==
    [][ \A d \in Docs, c \in Codes :
          ValidateStep(d, c)
             => /\ ~ HasRow(d) => resp'.detail = MsgNoCode
                /\ (HasRow(d) /\ Row(d).revoked # 0) => resp'.detail = MsgUsed
                /\ ( /\ HasRow(d) /\ Row(d).revoked = 0
                     /\ now > Row(d).time_stamp_vencimiento )
                      => resp'.detail = MsgExpired
                /\ resp'.detail = MsgIncorrect
                      => ( /\ HasRow(d) /\ Row(d).revoked = 0
                           /\ now <= Row(d).time_stamp_vencimiento ) ]_vars

\* C10 witness: a used row past its expiry answered "used" to a code other
\* than the one it holds
C10_Witness ==
    \E d \in Docs :
        /\ resp.op = "validate" /\ resp.doc = d
        /\ resp.detail = MsgUsed
        /\ HasRow(d) /\ Row(d).revoked = 1
        /\ now > Row(d).time_stamp_vencimiento
        /\ ~ verify_code_hash(resp.code, Row(d).pswr)


\* C4 (as claimed): a resend made less than CODE_RESEND_DELAY_MINUTES after a
\* resend that succeeded for the same document, with no call in between, is
\* refused with 429, whether or not the document had a row before the first.
C4_SecondResendRefused ==
    [][ \A d \in Docs, c \in Codes :
          ( /\ resp.op = "resend" /\ resp.doc = d /\ resp.status = OK
            /\ HasRow(d)
            /\ now - Row(d).time_stamp_generacion < CODE_RESEND_DELAY_MINUTES
            /\ ResendStep(d, c) )
             => resp'.status = HTTP_429_TOO_MANY_REQUESTS ]_vars

\* C5 (as claimed): of CODE_MAX_RESEND_PER_HOUR + 1 resend calls within one
\* hour, each at least CODE_RESEND_DELAY_MINUTES after the one before, for a
\* document the lookup accepts, the first CODE_MAX_RESEND_PER_HOUR succeed and
\* the next one is refused with 429.  streak counts the calls of the sequence
\* so far; it starts at a document with no row or with a freshly generated
\* code.
C5_QuotaThenRefused ==
    [][ \A d \in Docs, c \in Codes :
          ( /\ ResendStep(d, c)
            /\ streak[d] # NULL /\ Spaced(d)
            /\ now < MINUTES_PER_HOUR
            /\ GenLookup(personal, d, now) = OK )
             => IF streak[d] < CODE_MAX_RESEND_PER_HOUR
                THEN resp'.status = OK
                ELSE resp'.status = HTTP_429_TOO_MANY_REQUESTS ]_vars

\* The step is the call resend(d) of the resend-window specification
ResendHourStep(d, c) ==
    /\ resp'.op = "resend" /\ resp'.doc = d
    /\ ResendHour(d, c)

\* C6 (as claimed): once resend_count has reached CODE_MAX_RESEND_PER_HOUR, a
\* resend made more than one hour after the first code of the window was
\* issued, and at least CODE_RESEND_DELAY_MINUTES after the last resend,
\* succeeds.
C6_HourFromFirstCode ==
    [][ \A d \in Docs, c \in FewCodes :
          ( /\ HasRow(d)
            /\ Row(d).resend_count >= CODE_MAX_RESEND_PER_HOUR
            /\ window_start[d] # NULL
            /\ now - window_start[d] > MINUTES_PER_HOUR
            /\ \/ Row(d).last_resend_at = NULL
               \/ now - Row(d).last_resend_at >= CODE_RESEND_DELAY_MINUTES
            /\ ResendHourStep(d, c) )
             => resp'.status = OK ]_vars

\* C7 (as claimed): a resend that succeeds with resend_count at
\* CODE_MAX_RESEND_PER_HOUR (the hour has passed) leaves resend_count = 1, and
\* no row ever holds a resend_count above CODE_MAX_RESEND_PER_HOUR.
C7_CounterReset ==
    [][ /\ \A d \in Docs, c \in FewCodes :
             ( /\ HasRow(d)
               /\ Row(d).resend_count >= CODE_MAX_RESEND_PER_HOUR
               /\ ResendHourStep(d, c)
               /\ resp'.status = OK )
                => store'[DocId(d)].resend_count = 1
        /\ \A i \in DOMAIN store' :
             store'[i].resend_count <= CODE_MAX_RESEND_PER_HOUR ]_vars


\* C2 (as claimed): of the validate calls that run in parallel on the code a
\* document currently holds, at most one returns success.
C2_OneValidateWins ==
    \A d \in Docs : ok_validates[d] <= 1

\* C3 (as claimed): no increment of resend_count is lost (the stored counter
\* is at least the number of resends that succeeded on the row since it was
\* last reset), and no more than CODE_MAX_RESEND_PER_HOUR resends succeed in
\* one window.
C3_NoLostResend ==
    \A d \in Docs :
        HasRow(d) => /\ ok_resends[d] <= Row(d).resend_count
                     /\ ok_resends[d] <= CODE_MAX_RESEND_PER_HOUR


\* C11: a document has at most one row, keyed by its id.  A generate or
\* resend that loaded the document's row overwrites it in place; one that
\* loaded no row inserts it, and when another request inserted the row in the
\* meantime (two first-time calls in parallel) the second INSERT is refused
\* with 500 and the table is left with the one row.
C11_OneRecord ==
    [][ /\ \A i \in DOMAIN store' : store'[i].id = i
        /\ \A p \in Procs :
             (pc[p] = "g_commit" /\ pc'[p] = "idle")
                => LET id == DocId(req[p].doc)
                   IN  IF obj[p].existing # << >>
                       THEN /\ DOMAIN store' = DOMAIN store
                            /\ resp'.status = OK
                                  => verify_code_hash(resp'.code, store'[id].pswr)
                       ELSE IF id \in DOMAIN store
                       THEN /\ resp'.status = HTTP_500_INTERNAL_SERVER_ERROR
                            /\ store' = store
                       ELSE /\ resp'.status = OK
                            /\ DOMAIN store' = DOMAIN store \cup {id} ]_vars

\* C11 witness: of two first-time generate calls in parallel, the second to
\* commit was refused and the document has its row
C11_Witness ==
    \E d \in Docs :
        /\ resp.op = "generate" /\ resp.doc = d
        /\ resp.status = HTTP_500_INTERNAL_SERVER_ERROR
        /\ HasRow(d) /\ Row(d).resend_count = 0

\* The step is a run of the sweep
CleanupStep ==
    /\ resp'.op = "cleanup"
    /\ CleanupCall

\* C12 (as claimed): a sweep deletes every row whose expires_at has passed,
\* used or not, and returns how many it deleted; after it no row with
\* expires_at < now remains.
C12_SweepDeletesExpired ==
    [][ CleanupStep
          => /\ \A i \in DOMAIN store' : ~ (store'[i].time_stamp_vencimiento < now)
             /\ resp'.n = Cardinality({ i \in DOMAIN store :
                                          store[i].time_stamp_vencimiento < now }) ]_vars

\* The step is a run of the sweep among the requests in flight
SweepStep ==
    /\ resp'.op = "cleanup"
    /\ ConcCleanup

\* C13: a sweep leaves every row whose expires_at has not passed (now <=
\* expires_at) in the table and unchanged, whatever requests are in flight;
\* a request in flight on such a row keeps what it loaded, and its next
\* round trip to the database (the query, the commit of a generate or resend,
\* the checks and commit of a validate) gives what it would have given
\* without the sweep.
C13_SweepSparesLive ==
    [][ SweepStep
          => /\ \A i \in DOMAIN store :
                  now <= store[i].time_stamp_vencimiento
                     => (i \in DOMAIN store' /\ store'[i] = store[i])
             /\ \A p \in Procs :
                  ( /\ pc[p] # "idle"
                    /\ HasRow(req[p].doc)
                    /\ now <= Row(req[p].doc).time_stamp_vencimiento )
                     => LET d == req[p].doc
                        IN  /\ pc'[p] = pc[p] /\ req'[p] = req[p] /\ obj'[p] = obj[p]
                            /\ Query(store', DocId(d)) = Query(store, DocId(d))
                            /\ pc[p] = "v_loaded"
                                 => ValidateFinish(personal, store', obj[p].existing,
                                                   d, req[p].code, now)
                                    = ValidateFinish(personal, store, obj[p].existing,
                                                     d, req[p].code, now)
                            /\ pc[p] = "g_commit"
                                 => LET pending == GenApply(obj[p].existing, obj[p].user[1],
                                                            d, obj[p].code,
                                                            req[p].is_resend, now)
                                    IN  GenCommit(store', obj[p].existing, pending)
                                        = GenCommit(store, obj[p].existing, pending) ]_vars

\* C13 witness: the sweep ran at the very instant a row expires (it is not
\* yet past), while a generate that loaded the row was about to commit
C13_Witness ==
    \E p \in Procs :
        /\ resp.op = "cleanup"
        /\ pc[p] = "g_commit" /\ obj[p].existing # << >>
        /\ HasRow(req[p].doc)
        /\ Row(req[p].doc).revoked = 0
        /\ now = Row(req[p].doc).time_stamp_vencimiento

\* C14 (as claimed): a generate, resend or validate that answers with a
\* server-side fault leaves dbo.user_pswr exactly as it was before the call;
\* a validate that answers with a fault has not set revoked.
C14_FaultLeavesRecord ==
    [][ (resp'.status = HTTP_500_INTERNAL_SERVER_ERROR
           /\ resp'.op \in {"generate", "resend", "validate"})
          => store' = store ]_vars

\* C15: with the database answering, generate answers 404 exactly when
\* dbo.stg_personal has no row for the document, and 403 exactly when the row
\* has an end date that is set and before today; with an end date equal to
\* today it succeeds.  A 404 or 403 leaves dbo.user_pswr as it was: no row is
\* created and the document's row, if it has one, is unchanged.
C15_LookupRefusals ==
    [][ \A d \in Docs, c \in EnvCodes, sent \in BOOLEAN :
          ( /\ resp'.op = "generate" /\ resp'.doc = d
            /\ GenerateEnv(d, c, "none", sent) )
             => /\ (resp'.status = HTTP_404_NOT_FOUND) <=> (d \notin DOMAIN personal)
                /\ (resp'.status = HTTP_403_FORBIDDEN)
                     <=> ( /\ d \in DOMAIN personal
                           /\ personal[d].dt_fin_contrato # NULL
                           /\ personal[d].dt_fin_contrato < Today(now) )
                /\ resp'.status \in {HTTP_404_NOT_FOUND, HTTP_403_FORBIDDEN}
                     => store' = store
                /\ (d \in DOMAIN personal /\ personal[d].dt_fin_contrato = Today(now))
                     => resp'.status = OK ]_vars

\* C15 witness: generate was refused with 403 for a document that holds a
\* row from the time its contract was running
C15_Witness ==
    \E d \in Docs :
        /\ resp.op = "generate" /\ resp.doc = d
        /\ resp.status = HTTP_403_FORBIDDEN
        /\ d \in DOMAIN personal
        /\ personal[d].dt_fin_contrato < Today(now)
        /\ HasRow(d)

C17_ExactTTL ==
    \A i \in DOMAIN store :
        store[i].time_stamp_vencimiento
          = store[i].time_stamp_generacion + CODE_EXPIRATION_MINUTES

\* C18: when a fresh generate (not a resend) succeeds, the document's row
\* has resend_count = 0 and last_resend_at = NULL, whatever they were.
C18_FreshGenerateResets ==
    [][ \A d \in Docs, c \in EnvCodes, fail \in GenerateFaults, sent \in BOOLEAN :
          ( /\ resp'.op = "generate" /\ resp'.doc = d /\ resp'.status = OK
            /\ GenerateEnv(d, c, fail, sent) )
             => /\ DocId(d) \in DOMAIN store'
                /\ store'[DocId(d)].resend_count = 0
                /\ store'[DocId(d)].last_resend_at = NULL ]_vars

\* C18 witness: a generate succeeded on a row that had counted two resends
\* a moment before
C18_Witness ==
    \E d \in Docs :
        /\ resp.op = "generate" /\ resp.doc = d /\ resp.status = OK
        /\ HasRow(d)
        /\ Row(d).resend_count = 0 /\ Row(d).last_resend_at = NULL
        /\ DocId(d) \in DOMAIN before
        /\ before[DocId(d)].resend_count = 2
        /\ before[DocId(d)].last_resend_at # NULL

\* C19: a row whose revoked flag is set keeps it set through every validate
\* (whatever the code), every sweep and every generate or resend that fails;
\* the flag is clear again only after a generate or resend that succeeded,
\* and the row then holds the digest of the code that call returned.
C19_UsedIsTerminal ==
    [][ \A d \in Docs :
          ( /\ HasRow(d) /\ Row(d).revoked = 1
            /\ DocId(d) \in DOMAIN store'
            /\ store'[DocId(d)].revoked # 1 )
             => /\ resp'.op \in {"generate", "resend"}
                /\ resp'.doc = d
                /\ resp'.status = OK
                /\ verify_code_hash(resp'.code, store'[DocId(d)].pswr) ]_vars

\* C19 witness: a resend was refused on a used row, and the row is still
\* marked used
C19_Witness ==
    \E d \in Docs :
        /\ resp.op = "resend" /\ resp.doc = d
        /\ resp.status = HTTP_429_TOO_MANY_REQUESTS
        /\ DocId(d) \in DOMAIN before /\ before[DocId(d)].revoked = 1
        /\ HasRow(d) /\ Row(d).revoked = 1

ResendEnvStep(d) ==
    /\ resp'.op = "resend" /\ resp'.doc = d
    /\ \E c \in EnvCodes, sent \in BOOLEAN : ResendEnv(d, c, "none", sent)
ValidateEnvStep(d, c) ==
    /\ resp'.op = "validate" /\ resp'.doc = d /\ resp'.code = c
    /\ ValidateEnv(d, c, "none")

\* C22 (as claimed): the wait a resend refused for the delay reports is the
\* remaining time CODE_RESEND_DELAY_MINUTES - (now - last_resend_at) rounded
\* up to whole minutes; a remaining time of a whole number of minutes is
\* reported as it is.
C22_WaitIsCeiling ==
    [][ \A d \in Docs :
          ( /\ HasRow(d)
            /\ ResendEnvStep(d)
            /\ resp'.detail = MsgWait )
             => resp'.n = CODE_RESEND_DELAY_MINUTES - (now - Row(d).last_resend_at) ]_vars

\* C23: a resend refused with 429 leaves dbo.user_pswr as it was, every
\* column of the document's row included; right after it the code the row
\* holds, unused and unexpired, validates.
C23_RefusedResendWritesNothing ==
    [][ /\ \A d \in Docs :
             ( /\ ResendEnvStep(d)
               /\ resp'.status = HTTP_429_TOO_MANY_REQUESTS )
                => /\ HasRow(d)
                   /\ store' = store
                   /\ mailbox' = mailbox
        /\ \A d \in Docs, c \in EnvCodes :
             ( /\ resp.op = "resend" /\ resp.doc = d
               /\ resp.status = HTTP_429_TOO_MANY_REQUESTS
               /\ c = mailbox[d]
               /\ HasRow(d) /\ Row(d).revoked = 0
               /\ now <= Row(d).time_stamp_vencimiento
               /\ ValidateEnvStep(d, c) )
                => (resp'.status = OK /\ resp'.detail = MsgVerified) ]_vars

\* C23 witness: a resend was refused for the delay and the row, unused, is
\* as it was before the call
C23_Witness ==
    \E d \in Docs :
        /\ resp.op = "resend" /\ resp.doc = d
        /\ resp.status = HTTP_429_TOO_MANY_REQUESTS
        /\ resp.detail = MsgWait
        /\ HasRow(d) /\ Row(d).revoked = 0
        /\ before = store
        /\ verify_code_hash(mailbox[d], Row(d).pswr)

\* The step is the call generate(d, c) / validate(d, c) of the row-life
\* specification
GenerateLifeStep(d, c) ==
    /\ resp'.op = "generate" /\ resp'.doc = d
    /\ GenerateLife(d, c)
ValidateLifeStep(d, c) ==
    /\ resp'.op = "validate" /\ resp'.doc = d /\ resp'.code = c
    /\ ValidateLife(d, c)

\* C24: for a document that dbo.stg_personal resolves to an employee whose
\* contract runs, generate succeeds whatever dbo.user_pswr holds for it (no
\* row, an unused row, a used row, an expired row, a row on which a resend
\* would be refused) and leaves the row holding the new code, unused, with
\* the TTL counted from now and the resend counters cleared.
C24_GenerateNeverBlocked ==
    [][ \A d \in Docs, c \in EnvCodes :
          ( /\ GenLookup(personal, d, now) = OK
            /\ GenerateLifeStep(d, c) )
             => /\ resp'.status = OK /\ resp'.code = c
                /\ DOMAIN store' = DOMAIN store \cup {DocId(d)}
                /\ LET new == store'[DocId(d)]
                   IN  /\ new.pswr = hash_code(c)
                       /\ new.revoked = 0
                       /\ new.time_stamp_generacion = now
                       /\ new.time_stamp_vencimiento = now + CODE_EXPIRATION_MINUTES
                       /\ new.resend_count = 0
                       /\ new.last_resend_at = NULL
                       /\ new.correo = personal[d].correo ]_vars

\* C24 witness: generate succeeded on a row that was used and on which a
\* resend at that instant would have been refused for the delay
C24_Witness ==
    \E d \in Docs :
        /\ resp.op = "generate" /\ resp.doc = d /\ resp.status = OK
        /\ DocId(d) \in DOMAIN before
        /\ before[DocId(d)].revoked = 1
        /\ ~ can_resend(before[DocId(d)], now).ok
        /\ HasRow(d) /\ Row(d).revoked = 0
        /\ Row(d).time_stamp_generacion = now
        /\ Row(d).pswr # before[DocId(d)].pswr

\* C25 (as claimed): the contact a successful validate returns is the one
\* stored in the row when the code was generated, also when the document's
\* row of dbo.stg_personal has changed or is gone since.
C25_StoredContactReturned ==
    [][ \A d \in Docs, c \in EnvCodes :
          ( /\ HasRow(d)
            /\ ValidateEnvStep(d, c)
            /\ resp'.status = OK )
             => resp'.correo = Row(d).correo ]_vars

\* The record the service reads and writes for a document number
RecordOf(tbl, document_number) == Query(tbl, DocId(document_number))

\* The step is a call of the identities specification for the document d
IdsStep(d) ==
    /\ resp'.doc = d
    /\ \E v \in RawDocs, c \in EnvCodes :
          GenerateIds(v, c) \/ ResendIds(v, c) \/ ValidateIds(v, c)

\* C26 (as claimed): two distinct digits-only document numbers, those that
\* differ by leading zeros only included, share no record: a validate for B
\* succeeds only with the code last issued to B, and a call for A leaves
\* the record of every other document B as it was.
C26_IdentitiesApart ==
    [][ \A A \in IdDocs : \A B \in IdDocs \ {A} :
          /\ ( /\ IdsStep(B)
               /\ resp'.op = "validate" /\ resp'.status = OK )
                => resp'.code = mailbox[B]
          /\ IdsStep(A) => RecordOf(store', B) = RecordOf(store, B) ]_vars

\* C27 (as claimed): under every interleaving of a generate or resend with
\* a validate for the same document, the row that holds a newly issued code
\* is marked used only by a validate that presented that code: a validate
\* that matched the code before it never marks the new one used.
C27_NewCodeConsumedByItsValidate ==
    [][ \A p \in Procs :
          ( /\ pc[p] = "v_loaded" /\ pc'[p] = "idle"
            /\ HasRow(req[p].doc)
            /\ Row(req[p].doc).revoked = 0
            /\ DocId(req[p].doc) \in DOMAIN store'
            /\ store'[DocId(req[p].doc)].revoked = 1 )
             => verify_code_hash(req[p].code, Row(req[p].doc).pswr) ]_vars

\* C28: a validate refused for a missing, used, expired or wrong code leaves
\* dbo.user_pswr as it was (the row has no column that counts attempts);
\* right after a refused validate the code the row holds, unused and
\* unexpired, validates.
C28_FailedValidateWritesNothing ==
    [][ \A d \in Docs, c \in EnvCodes :
          /\ ( /\ ValidateEnvStep(d, c)
               /\ resp'.status # OK )
                => /\ store' = store
                   /\ resp'.status = HTTP_401_UNAUTHORIZED
                   /\ resp'.detail \in {MsgNoCode, MsgUsed, MsgExpired, MsgIncorrect}
                   /\ resp'.detail = MsgIncorrect
                        <=> ( /\ HasRow(d) /\ Row(d).revoked = 0
                              /\ now <= Row(d).time_stamp_vencimiento
                              /\ ~ verify_code_hash(c, Row(d).pswr) )
          /\ ( /\ resp.op = "validate" /\ resp.doc = d
               /\ resp.status = HTTP_401_UNAUTHORIZED
               /\ HasRow(d) /\ Row(d).revoked = 0
               /\ now <= Row(d).time_stamp_vencimiento
               /\ verify_code_hash(c, Row(d).pswr)
               /\ ValidateEnvStep(d, c) )
                => /\ resp'.status = OK /\ resp'.detail = MsgVerified
                   /\ store'[DocId(d)].revoked = 1 ]_vars

\* C28 witness: a validate with a wrong code was refused, and the row still
\* holds, unused and unexpired, the code last issued
C28_Witness ==
    \E d \in Docs :
        /\ resp.op = "validate" /\ resp.doc = d
        /\ resp.status = HTTP_401_UNAUTHORIZED /\ resp.detail = MsgIncorrect
        /\ HasRow(d) /\ Row(d).revoked = 0
        /\ now <= Row(d).time_stamp_vencimiento
        /\ resp.code # mailbox[d]
        /\ verify_code_hash(mailbox[d], Row(d).pswr)

\* C29: a generate or resend that succeeds leaves in the row the digest of
\* the code it returned and of no other code; from then on a validate that
\* presents another code (any code issued earlier included, though its own
\* row was unused and its TTL has not elapsed) on the unused, unexpired row
\* is refused as incorrect and writes nothing.
C29_OnlyLatestCodeValidates ==
    [][ \A d \in Docs, c \in EnvCodes :
          /\ ( /\ resp'.op \in {"generate", "resend"} /\ resp'.doc = d
               /\ resp'.status = OK /\ resp'.code = c
               /\ (GenerateLife(d, c) \/ ResendLife(d, c)) )
                => \A c2 \in EnvCodes :
                      verify_code_hash(c2, store'[DocId(d)].pswr) <=> c2 = c
          /\ ( /\ ValidateLifeStep(d, c)
               /\ HasRow(d) /\ Row(d).revoked = 0
               /\ now <= Row(d).time_stamp_vencimiento
               /\ c # mailbox[d] )
                => /\ resp'.status = HTTP_401_UNAUTHORIZED
                   /\ resp'.detail = MsgIncorrect
                   /\ store' = store ]_vars

\* C29 witness: a validate was refused as incorrect for the code the row
\* held, unused and with its TTL still running, before the latest generate
\* or resend overwrote it
C29_Witness ==
    \E d \in Docs :
        /\ resp.op = "validate" /\ resp.doc = d
        /\ resp.status = HTTP_401_UNAUTHORIZED /\ resp.detail = MsgIncorrect
        /\ HasRow(d) /\ Row(d).revoked = 0
        /\ DocId(d) \in DOMAIN before
        /\ before[DocId(d)].revoked = 0
        /\ now <= before[DocId(d)].time_stamp_vencimiento
        /\ verify_code_hash(resp.code, before[DocId(d)].pswr)
        /\ ~ verify_code_hash(resp.code, Row(d).pswr)
        /\ verify_code_hash(mailbox[d], Row(d).pswr)

\* C30: the verdict of validate does not depend on dbo.stg_personal: the
\* code the row holds, on the unused, unexpired row, is accepted and the row
\* is marked used whether the document's contract runs, has ended, or the
\* document is not found; when it is not found the profile returned is
\* empty.
C30_ValidateIgnoresLookup ==
    [][ \A d \in Docs, c \in EnvCodes :
          ( /\ ValidateEnvStep(d, c)
            /\ HasRow(d) /\ Row(d).revoked = 0
            /\ now <= Row(d).time_stamp_vencimiento
            /\ verify_code_hash(c, Row(d).pswr) )
             => /\ resp'.status = OK /\ resp'.detail = MsgVerified
                /\ store'[DocId(d)].revoked = 1
                /\ d \notin DOMAIN personal => resp'.correo = ""
                /\ d \in DOMAIN personal => resp'.correo = personal[d].correo ]_vars

\* C30 witness: a code was validated for a document that dbo.stg_personal
\* no longer holds, and the profile returned is empty
C30_Witness ==
    \E d \in Docs :
        /\ resp.op = "validate" /\ resp.doc = d /\ resp.status = OK
        /\ d \notin DOMAIN personal
        /\ GenLookup(personal, d, now) = HTTP_404_NOT_FOUND
        /\ resp.correo = ""
        /\ HasRow(d) /\ Row(d).revoked = 1
        /\ verify_code_hash(resp.code, Row(d).pswr)

\* C31: in every row of dbo.user_pswr, resend_count is not negative and
\* last_resend_at is NULL exactly when resend_count is 0, after any sequence
\* of generate, resend, validate and sweep calls; the reset that can_resend
\* makes on the loaded object is never written by itself.
C31_CountersAgree ==
    \A i \in DOMAIN store :
        /\ store[i].resend_count >= 0
        /\ (store[i].last_resend_at = NULL) <=> (store[i].resend_count = 0)

\* C31 witness: can_resend reset the counter of the loaded object (a full
\* quota, one hour after the code was issued) and the resend that followed
\* stored the counter it read from the table, plus one, with its own time
C31_Witness ==
    \E d \in Docs :
        /\ resp.op = "resend" /\ resp.doc = d /\ resp.status = OK
        /\ DocId(d) \in DOMAIN before
        /\ before[DocId(d)].resend_count = CODE_MAX_RESEND_PER_HOUR
        /\ can_resend(before[DocId(d)], now).ok
        /\ can_resend(before[DocId(d)], now).self.resend_count = 0
        /\ can_resend(before[DocId(d)], now).self.last_resend_at = NULL
        /\ HasRow(d)
        /\ Row(d).resend_count = before[DocId(d)].resend_count + 1
        /\ Row(d).last_resend_at = now

=============================================================================
